---------------------------- MODULE Spec2Model ----------------------------
(***************************************************************************)
(* The project-to-consultant matching engine of src/projects.ts and the    *)
(* payment-success webhook of the payments library (src/unnamed/part_003), *)
(* as a state machine over the projects, project_matches and payments      *)
(* tables.  Every exported function is one action: it runs from its first  *)
(* store read to its return (or throw) without interleaving.               *)
(*                                                                         *)
(* Texts are sequences of one-character strings.  Scores are kept in       *)
(* hundredths (76 is 0.76).  A nullable column holds <<>> (null) or <<v>>. *)
(* The created_at / updated_at columns are wall-clock stamps that no       *)
(* operation reads; they are not part of the state.                        *)
(***************************************************************************)
EXTENDS Integers, Sequences, FiniteSets, TLC

(***************************************************************************)
(* Bounds of the model.                                                    *)
(***************************************************************************)
\* number of API calls in a run
MaxCalls == 4

(***************************************************************************)
(* Characters and texts.                                                   *)
(***************************************************************************)
UpperChars == <<"A","B","C","D","E","F","G","H","I","J","K","L","M",
                "N","O","P","Q","R","S","T","U","V","W","X","Y","Z">>
LowerChars == <<"a","b","c","d","e","f","g","h","i","j","k","l","m",
                "n","o","p","q","r","s","t","u","v","w","x","y","z">>
DigitChars == {"0","1","2","3","4","5","6","7","8","9"}
SpaceChars == {" ", "\t", "\n"}

Range(s) == {s[i] : i \in DOMAIN s}

\* the lower-case letter of each upper-case letter
LowerOf == [c \in Range(UpperChars) |->
               LowerChars[CHOOSE i \in DOMAIN UpperChars : UpperChars[i] = c]]

\* String.prototype.toLowerCase, one character
ToLowerChar(c) == IF c \in DOMAIN LowerOf THEN LowerOf[c] ELSE c

toLowerCase(text) == [i \in DOMAIN text |-> ToLowerChar(text[i])]

\* the regular expression classes \w and \s
WordChars == Range(UpperChars) \cup Range(LowerChars) \cup DigitChars \cup {"_"}
IsWordChar(c) == c \in WordChars
IsSpaceChar(c) == c \in SpaceChars

\* String.prototype.split(/\s+/): an empty token before a leading run and
\* after a trailing run, as in JavaScript
RECURSIVE SplitWs(_, _, _)
SplitWs(s, i, cur) ==
    IF i > Len(s) THEN <<cur>>
    ELSE IF IsSpaceChar(s[i])
         THEN IF i > 1 /\ IsSpaceChar(s[i-1])
              THEN SplitWs(s, i + 1, cur)
              ELSE <<cur>> \o SplitWs(s, i + 1, <<>>)
         ELSE SplitWs(s, i + 1, Append(cur, s[i]))

\* Dedup that keeps every word
DedupNone(ws) == ws

\* [...new Set(words)]: first occurrences, in order
RECURSIVE Dedup(_)
Dedup(ws) ==
    IF ws = <<>> THEN <<>>
    ELSE LET rest == Dedup(SubSeq(ws, 1, Len(ws) - 1))
             w == ws[Len(ws)]
         IN IF w \in Range(rest) THEN rest ELSE Append(rest, w)

extractKeywords(text) ==
    LET lower == toLowerCase(text)
        stripped == SelectSeq(lower, LAMBDA c : IsWordChar(c) \/ IsSpaceChar(c))
        words == SelectSeq(SplitWs(stripped, 1, <<>>), LAMBDA w : Len(w) > 3)
    IN Dedup(words)

\* String.prototype.includes
Includes(s, t) ==
    \E i \in 0..(Len(s) - Len(t)) : SubSeq(s, i + 1, i + Len(t)) = t

\* KeywordMatches without the break: one count for every matching tag
RECURSIVE KeywordMatchesNoBreak(_, _, _)
KeywordMatchesNoBreak(lowerExpertise, keyword, e) ==
    IF e > Len(lowerExpertise) THEN 0
    ELSE (IF \/ Includes(lowerExpertise[e], keyword)
             \/ Includes(keyword, lowerExpertise[e])
          THEN 1 ELSE 0)
         + KeywordMatchesNoBreak(lowerExpertise, keyword, e + 1)

\* the inner loop over the tags, from tag e on: what it adds to matches
\* for one keyword (matches++; break at the first tag that matches)
RECURSIVE KeywordMatches(_, _, _)
KeywordMatches(lowerExpertise, keyword, e) ==
    IF e > Len(lowerExpertise) THEN 0
    ELSE IF \/ Includes(lowerExpertise[e], keyword)
            \/ Includes(keyword, lowerExpertise[e])
         THEN 1
         ELSE KeywordMatches(lowerExpertise, keyword, e + 1)

\* the outer loop over the keywords, from keyword k on
RECURSIVE CountMatches(_, _, _)
CountMatches(lowerExpertise, projectKeywords, k) ==
    IF k > Len(projectKeywords) THEN 0
    ELSE KeywordMatches(lowerExpertise, projectKeywords[k], 1)
         + CountMatches(lowerExpertise, projectKeywords, k + 1)

\* matches: the number of project keywords that match some expertise tag
MatchCount(expertise, projectKeywords) ==
    LET lowerExpertise == [i \in DOMAIN expertise |-> toLowerCase(expertise[i])]
    IN CountMatches(lowerExpertise, projectKeywords, 1)

\* calculateExpertiseMatch as the fraction <<numerator, denominator>>;
\* <<0, 1>> when there are no keywords
calculateExpertiseMatch(expertise, projectKeywords) ==
    IF Len(projectKeywords) > 0
    THEN <<MatchCount(expertise, projectKeywords), Len(projectKeywords)>>
    ELSE <<0, 1>>

\* calculateExperienceScore with > where the code has >=
calculateExperienceScoreExclusive(experienceYears) ==
    IF experienceYears > 15 THEN 10
    ELSE IF experienceYears > 10 THEN 9
    ELSE IF experienceYears > 7 THEN 8
    ELSE IF experienceYears > 5 THEN 7
    ELSE IF experienceYears > 3 THEN 6
    ELSE IF experienceYears > 1 THEN 5
    ELSE 3

\* calculateExperienceScore, in tenths
calculateExperienceScore(experienceYears) ==
    IF experienceYears >= 15 THEN 10
    ELSE IF experienceYears >= 10 THEN 9
    ELSE IF experienceYears >= 7 THEN 8
    ELSE IF experienceYears >= 5 THEN 7
    ELSE IF experienceYears >= 3 THEN 6
    ELSE IF experienceYears >= 1 THEN 5
    ELSE 3


(***************************************************************************)
(* The match ranker (generateProjectMatches).  The combined score          *)
(*   expertiseMatch * 0.6 + experienceScore * 0.4                          *)
(* of a consultant with expertise match m/n and experience score e/10 is   *)
(* (60*m + 4*e*n) / (100*n).  The code computes it in IEEE-754 doubles.    *)
(* For projects of up to 47 keywords the double comparison with 0.3 gives  *)
(* the exact answer, and Math.round(matchScore * 100) gives the exact      *)
(* score rounded half-up except at some exact ties x.5, where the double   *)
(* product lies below the tie and is rounded down (TiesBelowHalf).         *)
(***************************************************************************)
\* ScoreNum with the two weights exchanged
ScoreNumSwapped(em, es) == 40 * em[1] + 6 * es * em[2]

\* 100 * n * matchScore, for expertise match em = <<m, n>> and es tenths
ScoreNum(em, es) == 60 * em[1] + 4 * es * em[2]

\* PassesThreshold on the rounded score
PassesThresholdRounded(em, es) ==
    (2 * ScoreNum(em, es) + em[2]) \div (2 * em[2]) >= 30

\* matchScore >= 0.3
PassesThreshold(em, es) == ScoreNum(em, es) >= 30 * em[2]

\* the exact score in hundredths, rounded half-up
RoundHalfUp(em, es) == (2 * ScoreNum(em, es) + em[2]) \div (2 * em[2])

\* <<m, n, e>>, m/n in lowest terms: the passing scores whose exact value
\* in hundredths is a tie x.5 and whose double matchScore * 100 is below x.5
TiesBelowHalf ==
    { <<3, 8, 7>>, <<5, 8, 5>>,
      <<7, 24, 7>>, <<11, 24, 3>>, <<11, 24, 6>>, <<11, 24, 7>>, <<13, 24, 3>>,
      <<13, 24, 5>>, <<13, 24, 6>>, <<17, 24, 3>>, <<19, 24, 7>>, <<23, 24, 5>>,
      <<3, 40, 7>>, <<7, 40, 7>>, <<11, 40, 7>>, <<17, 40, 7>>, <<19, 40, 6>>,
      <<19, 40, 7>>, <<21, 40, 6>>, <<23, 40, 5>>, <<29, 40, 3>>, <<31, 40, 7>>,
      <<33, 40, 6>>, <<33, 40, 7>>, <<39, 40, 5>> }

RoundsBelowTie(em, es) ==
    \E t \in TiesBelowHalf : em[1] * t[2] = t[1] * em[2] /\ es = t[3]

\* Math.round(matchScore * 100), the persisted score in hundredths
RoundedScore(em, es) ==
    IF RoundsBelowTie(em, es) THEN RoundHalfUp(em, es) - 1 ELSE RoundHalfUp(em, es)

\* the candidate list of the scoring loop, in pool order
RECURSIVE Candidates(_, _)
Candidates(consultants, projectKeywords) ==
    IF consultants = <<>> THEN <<>>
    ELSE LET consultant == consultants[Len(consultants)]
             em == calculateExpertiseMatch(consultant.expertise, projectKeywords)
             es == calculateExperienceScore(consultant.experience_years)
             before == Candidates(SubSeq(consultants, 1, Len(consultants) - 1),
                                  projectKeywords)
         IN IF PassesThreshold(em, es)
            THEN Append(before, [consultant_id |-> consultant.id,
                                 match_score |-> RoundedScore(em, es)])
            ELSE before

\* matches.sort((a, b) => b.match_score - a.match_score): stable, descending
RECURSIVE SortByScore(_)
SortByScore(ms) ==
    IF ms = <<>> THEN <<>>
    ELSE LET sorted == SortByScore(SubSeq(ms, 1, Len(ms) - 1))
             x == ms[Len(ms)]
             k == Cardinality({i \in DOMAIN sorted :
                                   sorted[i].match_score >= x.match_score})
         IN SubSeq(sorted, 1, k) \o <<x>> \o SubSeq(sorted, k + 1, Len(sorted))

\* matches.slice(0, 10)
TopN == 10

\* TopMatches without the slice
TopMatchesUnsliced(consultants, project) ==
    SortByScore(Candidates(consultants,
                           extractKeywords(project.title \o <<" ">> \o
                               project.description \o <<" ">> \o
                               project.requirements)))

TopMatches(consultants, project) ==
    LET projectKeywords == extractKeywords(project.title \o <<" ">> \o
                               project.description \o <<" ">> \o
                               project.requirements)
        sorted == SortByScore(Candidates(consultants, projectKeywords))
    IN SubSeq(sorted, 1, IF Len(sorted) < TopN THEN Len(sorted) ELSE TopN)

(***************************************************************************)
(* The inputs of the model.                                                *)
(***************************************************************************)
Null == <<>>
Some(v) == <<v>>

Smes == {"sme1", "sme2"}

TxtCarbon == <<"C","a","r","b","o","n">>
TxtAudit == <<"a","u","d","i","t">>
TxtFootprint == <<"f","o","o","t","p","r","i","n","t">>
TxtWaste == <<"W","a","s","t","e">>
TxtEnergy == <<"E","n","e","r","g","y">>
TxtIso == <<"I","S","O">>
Sp == <<" ">>

\* the consultant_profiles table: expertise tags and years of experience
DefaultPool ==
    << [id |-> "c1", expertise |-> <<TxtCarbon \o Sp \o TxtFootprint>>,
        experience_years |-> 12],
       [id |-> "c2", expertise |-> <<TxtEnergy>>, experience_years |-> 3],
       [id |-> "c3", expertise |-> <<TxtWaste>>, experience_years |-> 0] >>

\* the consultants that call submitProposal: c1 has a match in every
\* project, c2 and c3 in one each
ConsultantIds == {"c1", "c2", "c3"}

\* the createProject calls: <<smeId, projectData>>
ProjectInputs ==
    { <<"sme1", [title |-> TxtCarbon \o Sp \o TxtAudit,
                 description |-> TxtFootprint \o Sp \o TxtEnergy,
                 requirements |-> TxtIso, budget |-> Some(500), deadline |-> Null]>>,
      <<"sme2", [title |-> TxtWaste, description |-> <<>>, requirements |-> <<>>,
                 budget |-> Null, deadline |-> Null]>> }

\* projectData of updateProject: the fields that are not undefined
ProjectPatches ==
    { [title |-> TxtWaste \o Sp \o TxtAudit], [status |-> "cancelled"] }

Proposals == {"plan"}
Prices == {100, 250}
Amounts == {100}
MatchStatusArgs == {"accepted", "rejected", "completed"}

(***************************************************************************)
(* The state.                                                              *)
(***************************************************************************)
VARIABLES
    projects,             \* the projects table: id -> row
    project_matches,      \* the project_matches table: id -> row
    payments,             \* the payments table: id -> row
    consultant_profiles,  \* the consultant_profiles table, in scan order
    nanoids,              \* per table, the number of ids nanoid() gave its rows
    lastCall,             \* the last API call and whether it succeeded
    calls,                \* the number of API calls made
    evaluation,           \* a helper function's arguments and, once done, result
    requests              \* the requests in flight, each at one of its statements

vars == <<projects, project_matches, payments, consultant_profiles,
          nanoids, lastCall, calls, evaluation, requests>>

\* the record of a call: the operation, whether it returned (TRUE) or threw /
\* returned false (FALSE), the id and the acting user it was given, and its
\* other arguments
Call(op, ok, id, actor, arg) ==
    [op |-> op, ok |-> ok, id |-> id, actor |-> actor, arg |-> arg]

\* no helper function is evaluated on its own
NoEvaluation == [fn |-> "none", args |-> <<>>, done |-> TRUE, result |-> <<>>]

Init ==
    /\ projects = <<>>
    /\ project_matches = <<>>
    /\ payments = <<>>
    /\ consultant_profiles = DefaultPool
    /\ nanoids = [projects |-> 0, project_matches |-> 0, payments |-> 0]
    /\ lastCall = Call("none", TRUE, 0, "", <<>>)
    /\ calls = 0
    /\ evaluation = NoEvaluation
    /\ requests = <<>>

\* a table with row r stored under id k
Put(table, k, r) == [x \in DOMAIN table \cup {k} |-> IF x = k THEN r ELSE table[x]]

\* a table without the rows whose id is in ks
Remove(table, ks) == [x \in DOMAIN table \ ks |-> table[x]]

MatchesOf(table, projectId) == {m \in DOMAIN table : table[m].project_id = projectId}


(***************************************************************************)
(* createProject: insert the project with status 'open', then              *)
(* generateProjectMatches inserts one pending match per retained           *)
(* consultant.  nanoid() gives every row an id its table has not seen: the  *)
(* next number of the table's count.                                       *)
(***************************************************************************)
\* NewMatches that binds 0 where the price is null
NewMatchesPriceZero(projectId, top, firstId) ==
    [m \in (firstId + 1)..(firstId + Len(top)) |->
        [project_id |-> projectId,
         consultant_id |-> top[m - firstId].consultant_id,
         match_score |-> top[m - firstId].match_score,
         status |-> "pending",
         proposal |-> Null,
         price |-> Some(0)]]

\* the rows generateProjectMatches inserts for the retained list top
NewMatches(projectId, top, firstId) ==
    [m \in (firstId + 1)..(firstId + Len(top)) |->
        [project_id |-> projectId,
         consultant_id |-> top[m - firstId].consultant_id,
         match_score |-> top[m - firstId].match_score,
         status |-> "pending",
         proposal |-> Null,
         price |-> Null]]

CreateProject(smeId, projectData) ==
    LET projectId == nanoids.projects + 1
        project == [sme_id |-> smeId,
                    title |-> projectData.title,
                    description |-> projectData.description,
                    requirements |-> projectData.requirements,
                    budget |-> projectData.budget,
                    deadline |-> projectData.deadline,
                    status |-> "open"]
    IN \E top \in {TopMatches(consultant_profiles, project)} :
        LET new == NewMatches(projectId, top, nanoids.project_matches)
        IN /\ projects' = Put(projects, projectId, project)
           /\ project_matches' = [m \in DOMAIN project_matches \cup DOMAIN new |->
                                     IF m \in DOMAIN new THEN new[m]
                                     ELSE project_matches[m]]
           /\ nanoids' = [nanoids EXCEPT !.projects = projectId,
                                         !.project_matches = @ + Len(top)]
           /\ lastCall' = Call("createProject", TRUE, projectId, smeId, <<>>)
           /\ UNCHANGED <<payments, consultant_profiles>>

(***************************************************************************)
(* updateProject: the owner's partial update; every field of the patch,    *)
(* status included, is written.                                            *)
(***************************************************************************)
ApplyPatch(project, projectData) ==
    [f \in DOMAIN project |->
        IF f \in DOMAIN projectData THEN projectData[f] ELSE project[f]]

\* UpdateProject that scores the project's matches again from the new text
UpdateProjectRescoring(projectId, smeId, projectData) ==
    LET found == projectId \in DOMAIN projects /\ projects[projectId].sme_id = smeId
        patched == ApplyPatch(projects[projectId], projectData)
        top == TopMatches(consultant_profiles, patched)
        rescored(m) ==
            LET hits == {i \in DOMAIN top :
                            top[i].consultant_id = project_matches[m].consultant_id}
            IN IF hits = {} THEN 0 ELSE top[CHOOSE i \in hits : TRUE].match_score
    IN /\ lastCall' = Call("updateProject", found, projectId, smeId, <<projectData>>)
       /\ projects' = IF found THEN Put(projects, projectId, patched) ELSE projects
       /\ project_matches' =
              IF found
              THEN [m \in DOMAIN project_matches |->
                       IF project_matches[m].project_id = projectId
                       THEN [project_matches[m] EXCEPT !.match_score = rescored(m)]
                       ELSE project_matches[m]]
              ELSE project_matches
       /\ UNCHANGED <<payments, consultant_profiles, nanoids>>

\* UpdateProject that runs generateProjectMatches again on the new text
UpdateProjectRerank(projectId, smeId, projectData) ==
    LET found == projectId \in DOMAIN projects /\ projects[projectId].sme_id = smeId
        patched == ApplyPatch(projects[projectId], projectData)
        top == IF found THEN TopMatches(consultant_profiles, patched) ELSE <<>>
        new == NewMatches(projectId, top, nanoids.project_matches)
    IN /\ lastCall' = Call("updateProject", found, projectId, smeId, <<projectData>>)
       /\ projects' = IF found THEN Put(projects, projectId, patched) ELSE projects
       /\ project_matches' = [m \in DOMAIN project_matches \cup DOMAIN new |->
                                 IF m \in DOMAIN new THEN new[m]
                                 ELSE project_matches[m]]
       /\ nanoids' = [nanoids EXCEPT !.project_matches = @ + Len(top)]
       /\ UNCHANGED <<payments, consultant_profiles>>

UpdateProject(projectId, smeId, projectData) ==
    LET found == projectId \in DOMAIN projects /\ projects[projectId].sme_id = smeId
    IN /\ lastCall' = Call("updateProject", found, projectId, smeId, <<projectData>>)
       /\ projects' = IF found
                      THEN Put(projects, projectId,
                               ApplyPatch(projects[projectId], projectData))
                      ELSE projects
       /\ UNCHANGED <<project_matches, payments, consultant_profiles, nanoids>>

(***************************************************************************)
(* deleteProject: the owner deletes the project's matches, then the        *)
(* project.  The payments table references project_matches; where the      *)
(* store enforces that reference the first delete throws when a payment    *)
(* refers to one of the matches (fkEnforced), otherwise it goes through.   *)
(***************************************************************************)
\* DeleteProject without the first DELETE: the matches stay
DeleteProjectKeepingMatches(projectId, smeId, fkEnforced) ==
    LET found == projectId \in DOMAIN projects /\ projects[projectId].sme_id = smeId
    IN /\ lastCall' = Call("deleteProject", found, projectId, smeId, <<>>)
       /\ projects' = IF found THEN Remove(projects, {projectId}) ELSE projects
       /\ UNCHANGED <<project_matches, payments, consultant_profiles, nanoids>>

DeleteProject(projectId, smeId, fkEnforced) ==
    LET found == projectId \in DOMAIN projects /\ projects[projectId].sme_id = smeId
        ms == MatchesOf(project_matches, projectId)
        blocked == fkEnforced /\ \E p \in DOMAIN payments : payments[p].project_match_id \in ms
        ok == found /\ ~blocked
    IN /\ lastCall' = Call("deleteProject", ok, projectId, smeId, <<>>)
       /\ project_matches' = IF ok THEN Remove(project_matches, ms) ELSE project_matches
       /\ projects' = IF ok THEN Remove(projects, {projectId}) ELSE projects
       /\ UNCHANGED <<payments, consultant_profiles, nanoids>>

(***************************************************************************)
(* submitProposal: the matched consultant sets proposal and price of a     *)
(* pending match.                                                          *)
(***************************************************************************)
\* ProposalUpdate that also resets the match score
ProposalUpdateResetsScore(match, proposal, price) ==
    [match EXCEPT !.proposal = Some(proposal), !.price = Some(price),
                  !.match_score = 0]

\* UPDATE project_matches SET proposal = ?, price = ? ... WHERE id = ?
ProposalUpdate(match, proposal, price) ==
    [match EXCEPT !.proposal = Some(proposal), !.price = Some(price)]

\* SubmitProposal without the status = 'pending' test
SubmitProposalAnyStatus(matchId, consultantId, proposal, price) ==
    LET ok == /\ matchId \in DOMAIN project_matches
              /\ project_matches[matchId].consultant_id = consultantId
    IN /\ lastCall' = Call("submitProposal", ok, matchId, consultantId,
                           <<proposal, price>>)
       /\ project_matches' =
              IF ok
              THEN [project_matches EXCEPT
                       ![matchId] = ProposalUpdate(@, proposal, price)]
              ELSE project_matches
       /\ UNCHANGED <<projects, payments, consultant_profiles, nanoids>>

SubmitProposal(matchId, consultantId, proposal, price) ==
    LET found == /\ matchId \in DOMAIN project_matches
                 /\ project_matches[matchId].consultant_id = consultantId
        ok == found /\ project_matches[matchId].status = "pending"
    IN /\ lastCall' = Call("submitProposal", ok, matchId, consultantId,
                           <<proposal, price>>)
       /\ project_matches' =
              IF ok
              THEN [project_matches EXCEPT
                       ![matchId] = ProposalUpdate(@, proposal, price)]
              ELSE project_matches
       /\ UNCHANGED <<projects, payments, consultant_profiles, nanoids>>


(***************************************************************************)
(* updateMatchStatus: the project owner sets a match's status.  The only   *)
(* condition the code tests is that the match exists and its project       *)
(* belongs to the caller; the current status of the match is not read.     *)
(***************************************************************************)
\* ExistingMatch without the p.sme_id = ? condition
ExistingMatchAnyOwner(matchId, smeId) ==
    /\ matchId \in DOMAIN project_matches
    /\ project_matches[matchId].project_id \in DOMAIN projects

\* SELECT pm.* FROM project_matches pm JOIN projects p ... WHERE pm.id = ?
\* AND p.sme_id = ? returns a row
ExistingMatch(matchId, smeId) ==
    /\ matchId \in DOMAIN project_matches
    /\ project_matches[matchId].project_id \in DOMAIN projects
    /\ projects[project_matches[matchId].project_id].sme_id = smeId

\* MatchStatusAfter with the sibling cascade run for every new status
MatchStatusAfterCascadeAlways(m, matchId, status) ==
    IF m = matchId THEN status
    ELSE IF /\ project_matches[m].project_id = project_matches[matchId].project_id
            /\ project_matches[m].status = "pending"
         THEN "rejected"
         ELSE project_matches[m].status

\* the status column of match m after the call: the target takes the new
\* status; on 'accepted' the other pending matches of the project are
\* rejected
MatchStatusAfter(m, matchId, status) ==
    IF m = matchId THEN status
    ELSE IF /\ status = "accepted"
            /\ project_matches[m].project_id = project_matches[matchId].project_id
            /\ project_matches[m].status = "pending"
         THEN "rejected"
         ELSE project_matches[m].status

\* ProjectStatusAfter with the 'completed' cascade missing
ProjectStatusAfterNoComplete(current, status) ==
    IF status = "accepted" THEN "in_progress" ELSE current

\* the status of the parent project after the call
ProjectStatusAfter(current, status) ==
    IF status = "accepted" THEN "in_progress"
    ELSE IF status = "completed" THEN "completed"
    ELSE current

UpdateMatchStatus(matchId, smeId, status) ==
    LET ok == ExistingMatch(matchId, smeId)
    IN /\ lastCall' = Call("updateMatchStatus", ok, matchId, smeId, <<status>>)
       /\ project_matches' =
              IF ok
              THEN [m \in DOMAIN project_matches |->
                       [project_matches[m] EXCEPT
                           !.status = MatchStatusAfter(m, matchId, status)]]
              ELSE project_matches
       /\ projects' =
              IF ok
              THEN LET projectId == project_matches[matchId].project_id
                   IN [projects EXCEPT ![projectId].status =
                           ProjectStatusAfter(projects[projectId].status, status)]
              ELSE projects
       /\ UNCHANGED <<payments, consultant_profiles, nanoids>>

(***************************************************************************)
(* createPaymentIntent: insert a pending payment for a match id, then ask  *)
(* Stripe for a payment intent and store its id.  A Stripe failure         *)
(* (~stripeOk) throws and leaves the inserted row behind.  The             *)
(* stripe_payment_id column, which nothing modelled here reads, is left    *)
(* out.  Payments are created for matches that exist.                      *)
(***************************************************************************)
CreatePaymentIntent(projectMatchId, amount, stripeOk) ==
    LET paymentId == nanoids.payments + 1
        payment == [project_match_id |-> projectMatchId,
                    amount |-> amount,
                    currency |-> "USD",
                    status |-> "pending"]
    IN /\ nanoids' = [nanoids EXCEPT !.payments = paymentId]
       /\ lastCall' = Call("createPaymentIntent", stripeOk,
                           projectMatchId, "", <<amount>>)
       /\ payments' = Put(payments, paymentId, payment)
       /\ UNCHANGED <<projects, project_matches, consultant_profiles>>

(***************************************************************************)
(* handleStripeWebhook for payment_intent.succeeded                        *)
(* (handlePaymentIntentSucceeded): the payment named in the event's        *)
(* metadata becomes completed, its match accepted and the match's project  *)
(* in_progress.  metaPaymentId is Null when the metadata holds no id.      *)
(***************************************************************************)
HandlePaymentIntentSucceeded(metaPaymentId) ==
    LET hasId == metaPaymentId # Null
        paymentId == metaPaymentId[1]
        hasPayment == hasId /\ paymentId \in DOMAIN payments
        matchId == payments[paymentId].project_match_id
        hasMatch == hasPayment /\ matchId \in DOMAIN project_matches
        projectId == project_matches[matchId].project_id
    IN /\ lastCall' = Call("handlePaymentIntentSucceeded", hasMatch,
                           IF hasId THEN paymentId ELSE 0, "", <<>>)
       /\ payments' = IF hasPayment
                      THEN [payments EXCEPT ![paymentId].status = "completed"]
                      ELSE payments
       /\ project_matches' =
              IF hasMatch
              THEN [project_matches EXCEPT ![matchId].status = "accepted"]
              ELSE project_matches
       /\ projects' =
              IF hasMatch /\ projectId \in DOMAIN projects
              THEN [projects EXCEPT ![projectId].status = "in_progress"]
              ELSE projects
       /\ UNCHANGED <<consultant_profiles, nanoids>>

(***************************************************************************)
(* The specification: any sequence of at most MaxCalls calls.  An id       *)
(* argument is an id of the table or 0, an id that is in no table.         *)
(***************************************************************************)
Tick ==
    /\ calls < MaxCalls
    /\ calls' = calls + 1
    /\ UNCHANGED <<evaluation, requests>>

DoCreateProject ==
    \E input \in ProjectInputs :
        Tick /\ CreateProject(input[1], input[2])

DoUpdateProject ==
    \E projectId \in DOMAIN projects \cup {0}, smeId \in Smes,
       projectData \in ProjectPatches :
        Tick /\ UpdateProject(projectId, smeId, projectData)

DoDeleteProject ==
    \E projectId \in DOMAIN projects \cup {0}, smeId \in Smes, fkEnforced \in BOOLEAN :
        Tick /\ DeleteProject(projectId, smeId, fkEnforced)

DoSubmitProposal ==
    \E matchId \in DOMAIN project_matches \cup {0}, consultantId \in ConsultantIds,
       proposal \in Proposals, price \in Prices :
        Tick /\ SubmitProposal(matchId, consultantId, proposal, price)

DoUpdateMatchStatus ==
    \E matchId \in DOMAIN project_matches \cup {0}, smeId \in Smes,
       status \in MatchStatusArgs :
        Tick /\ UpdateMatchStatus(matchId, smeId, status)

DoCreatePaymentIntent ==
    \E projectMatchId \in DOMAIN project_matches, amount \in Amounts,
       stripeOk \in BOOLEAN :
        Tick /\ CreatePaymentIntent(projectMatchId, amount, stripeOk)

DoHandlePaymentIntentSucceeded ==
    \E metaPaymentId \in {Null} \cup {Some(p) : p \in DOMAIN payments \cup {0}} :
        Tick /\ HandlePaymentIntentSucceeded(metaPaymentId)

Next ==
    \/ DoCreateProject
    \/ DoUpdateProject
    \/ DoDeleteProject
    \/ DoSubmitProposal
    \/ DoUpdateMatchStatus
    \/ DoCreatePaymentIntent
    \/ DoHandlePaymentIntentSucceeded

Spec == Init /\ [][Next]_vars

(***************************************************************************)
(* The ranker on larger pools: createProject calls on a store whose        *)
(* consultant_profiles table holds more consultants than the ranker        *)
(* retains.  A consultant's tags are keywords of the seven-keyword project *)
(* RankProject, so that m tags give expertise match m/7.                   *)
(***************************************************************************)
TxtWater == <<"W","a","t","e","r">>
TxtSolar == <<"S","o","l","a","r">>

Consultant(id, expertise, experienceYears) ==
    [id |-> id, expertise |-> expertise, experience_years |-> experienceYears]

\* nine consultants with combined scores from 1.00 down to 0.5314, not in
\* score order; r04 and r05 have the same score
StrongConsultants ==
    << Consultant("r01", <<TxtCarbon, TxtAudit, TxtFootprint, TxtEnergy, TxtWaste,
                           TxtWater, TxtSolar>>, 15),
       Consultant("r02", <<TxtCarbon, TxtAudit>>, 16),
       Consultant("r03", <<TxtCarbon, TxtAudit, TxtFootprint, TxtEnergy, TxtWaste>>, 8),
       Consultant("r04", <<TxtCarbon, TxtAudit, TxtFootprint, TxtEnergy>>, 7),
       Consultant("r05", <<TxtWaste, TxtWater, TxtSolar, TxtEnergy>>, 7),
       Consultant("r06", <<TxtCarbon, TxtAudit, TxtFootprint>>, 5),
       Consultant("r07", <<TxtWaste, TxtWater, TxtSolar>>, 20),
       Consultant("r08", <<TxtWater, TxtSolar>>, 10),
       Consultant("r09", <<TxtCarbon, TxtAudit, TxtFootprint, TxtEnergy, TxtWaste,
                           TxtWater>>, 12) >>

\* rX: 1/7 and 5 years, combined 0.3657; rY: 2/7 and 1 year, combined
\* 0.3714; both round to 0.37.  rZ: no overlap and no experience, 0.12
WeakConsultants ==
    { Consultant("rX", <<TxtSolar>>, 5),
      Consultant("rY", <<TxtCarbon, TxtWater>>, 1),
      Consultant("rZ", <<TxtIso>>, 0) }

\* the pools: the last 9, 8, 7 or 6 strong consultants, then the weak ones
\* in any order
RankPools ==
    { SubSeq(StrongConsultants, i, Len(StrongConsultants)) \o <<a, b, c>> :
          i \in 1..4,
          <<a, b, c>> \in {t \in WeakConsultants \X WeakConsultants \X WeakConsultants :
                              {t[1], t[2], t[3]} = WeakConsultants} }

RankProject ==
    [title |-> TxtCarbon \o Sp \o TxtAudit,
     description |-> TxtFootprint \o Sp \o TxtEnergy \o Sp \o TxtWaste,
     requirements |-> TxtWater \o Sp \o TxtSolar,
     budget |-> Null, deadline |-> Null]

RankInputs ==
    { <<"sme1", RankProject>>,
      <<"sme2", [title |-> TxtWaste \o Sp \o TxtWater, description |-> <<>>,
                 requirements |-> <<>>, budget |-> Some(500), deadline |-> Null]>> }

InitRank ==
    /\ projects = <<>>
    /\ project_matches = <<>>
    /\ payments = <<>>
    /\ consultant_profiles \in RankPools
    /\ nanoids = [projects |-> 0, project_matches |-> 0, payments |-> 0]
    /\ lastCall = Call("none", TRUE, 0, "", <<>>)
    /\ calls = 0
    /\ evaluation = NoEvaluation
    /\ requests = <<>>

DoRankCreateProject ==
    \E input \in RankInputs :
        Tick /\ CreateProject(input[1], input[2])

NextRank == DoRankCreateProject

SpecRank == InitRank /\ [][NextRank]_vars

(***************************************************************************)
(* The helper functions on their own: the arguments are drawn in the       *)
(* initial state and one step evaluates the function.  The store is empty  *)
(* and is not touched.                                                     *)
(***************************************************************************)
store == <<projects, project_matches, payments, consultant_profiles,
           nanoids, lastCall, calls>>

EmptyStore ==
    /\ projects = <<>>
    /\ project_matches = <<>>
    /\ payments = <<>>
    /\ consultant_profiles = <<>>
    /\ nanoids = [projects |-> 0, project_matches |-> 0, payments |-> 0]
    /\ lastCall = Call("none", TRUE, 0, "", <<>>)
    /\ calls = 0
    /\ requests = <<>>

Evaluate(fn, args) == [fn |-> fn, args |-> args, done |-> FALSE, result |-> <<>>]

\* the sequences over S of length at most n
SeqsUpTo(S, n) == UNION {[1..k -> S] : k \in 0..n}

\* the scoring step of the candidate loop for one consultant: the expertise
\* match m/n of an n-keyword project and the consultant's years
MaxKeywords == 17
MaxYears == 16

ExpertiseMatches ==
    {em \in (0..MaxKeywords) \X (1..MaxKeywords) : em[1] <= em[2]}

InitScore ==
    /\ EmptyStore
    /\ evaluation \in {Evaluate("matchScore", <<em, years>>) :
                          em \in ExpertiseMatches, years \in 0..MaxYears}

ScoreConsultant ==
    /\ evaluation.fn = "matchScore"
    /\ ~evaluation.done
    /\ LET expertiseMatch == evaluation.args[1]
           experienceScore == calculateExperienceScore(evaluation.args[2])
           included == PassesThreshold(expertiseMatch, experienceScore)
       IN evaluation' =
              [evaluation EXCEPT
                  !.done = TRUE,
                  !.result = [included |-> included,
                              match_score |->
                                  IF included
                                  THEN Some(RoundedScore(expertiseMatch, experienceScore))
                                  ELSE Null]]
    /\ UNCHANGED <<store, requests>>

NextScore == ScoreConsultant

SpecScore == InitScore /\ [][NextScore]_vars

\* calculateExpertiseMatch on tag lists and keyword lists; a keyword list
\* is a result of extractKeywords: lower-case words without repetition
MaxTagCount == 2
MaxKeywordCount == 3

ExpertiseTags ==
    { TxtCarbon \o Sp \o TxtFootprint, <<"C","a","r">>, TxtEnergy, <<>> }

KeywordWords ==
    { toLowerCase(TxtCarbon), TxtFootprint, toLowerCase(TxtEnergy), TxtAudit }

KeywordLists ==
    {ks \in SeqsUpTo(KeywordWords, MaxKeywordCount) :
        \A i, j \in DOMAIN ks : ks[i] = ks[j] => i = j}

InitExpertise ==
    /\ EmptyStore
    /\ evaluation \in {Evaluate("calculateExpertiseMatch", <<expertise, projectKeywords>>) :
                          expertise \in SeqsUpTo(ExpertiseTags, MaxTagCount),
                          projectKeywords \in KeywordLists}

EvaluateExpertiseMatch ==
    /\ evaluation.fn = "calculateExpertiseMatch"
    /\ ~evaluation.done
    /\ evaluation' =
           [evaluation EXCEPT
               !.done = TRUE,
               !.result = calculateExpertiseMatch(evaluation.args[1], evaluation.args[2])]
    /\ UNCHANGED <<store, requests>>

NextExpertise == EvaluateExpertiseMatch

SpecExpertise == InitExpertise /\ [][NextExpertise]_vars

\* calculateExperienceScore on two numbers of years (experience_years is
\* an INTEGER column; the years are not negative)
MaxExperienceYears == 20

InitExperience ==
    /\ EmptyStore
    /\ evaluation \in {Evaluate("calculateExperienceScore", <<years, more>>) :
                          years \in 0..MaxExperienceYears,
                          more \in 0..MaxExperienceYears}

EvaluateExperienceScore ==
    /\ evaluation.fn = "calculateExperienceScore"
    /\ ~evaluation.done
    /\ evaluation' =
           [evaluation EXCEPT
               !.done = TRUE,
               !.result = <<calculateExperienceScore(evaluation.args[1]),
                            calculateExperienceScore(evaluation.args[2])>>]
    /\ UNCHANGED <<store, requests>>

NextExperience == EvaluateExperienceScore

SpecExperience == InitExperience /\ [][NextExperience]_vars

\* extractKeywords on the texts made of at most MaxChunks chunks: word
\* parts in upper and lower case, blanks, a tab, punctuation
MaxChunks == 4

TextChunks ==
    { <<"C","a","r","b">>, <<"c","a","r","b">>, <<"o","n">>, <<"_","9">>,
      <<" ">>, <<"\t">>, <<"-">> }

RECURSIVE Concat(_)
Concat(chunks) ==
    IF chunks = <<>> THEN <<>>
    ELSE chunks[1] \o Concat(SubSeq(chunks, 2, Len(chunks)))

InitKeywords ==
    /\ EmptyStore
    /\ evaluation \in {Evaluate("extractKeywords", <<Concat(chunks)>>) :
                          chunks \in SeqsUpTo(TextChunks, MaxChunks)}

EvaluateExtractKeywords ==
    /\ evaluation.fn = "extractKeywords"
    /\ ~evaluation.done
    /\ evaluation' = [evaluation EXCEPT
                          !.done = TRUE,
                          !.result = extractKeywords(evaluation.args[1])]
    /\ UNCHANGED <<store, requests>>

NextKeywords == EvaluateExtractKeywords

SpecKeywords == InitKeywords /\ [][NextKeywords]_vars

(***************************************************************************)
(* Requests that run at the same time.  A function of src/projects.ts      *)
(* awaits one store statement after the other without a transaction, so    *)
(* the statements of two requests interleave; one statement is one step.   *)
(* A request is at the statement it runs next (pc), holds the row its      *)
(* first SELECT read (row) and, once returned, what it returns (result).   *)
(* A statement can also throw (a store error), which ends the request      *)
(* where it is.                                                            *)
(***************************************************************************)
Request(op, id, actor, arg) ==
    [op |-> op, id |-> id, actor |-> actor, arg |-> arg,
     pc |-> "start", row |-> Null, result |-> Null]

\* the requests on the one project of the store and its matches 1 and 2
ConcurrentRequests ==
    {Request("updateMatchStatus", m, "sme1", <<status>>) :
         m \in {1, 2}, status \in MatchStatusArgs}
    \cup {Request("submitProposal", 1, "c1", <<"plan", 100>>),
          Request("submitProposal", 2, "c2", <<"plan", 100>>),
          Request("getProjectMatches", 1, "sme1", <<>>)}

\* the store after sme1 created the first project of ProjectInputs: the
\* project is open and the matches of c1 and c2 are pending
ConcurrentProject ==
    LET projectData == (CHOOSE input \in ProjectInputs : input[1] = "sme1")[2]
    IN [sme_id |-> "sme1",
        title |-> projectData.title,
        description |-> projectData.description,
        requirements |-> projectData.requirements,
        budget |-> projectData.budget,
        deadline |-> projectData.deadline,
        status |-> "open"]

InitConcurrent ==
    /\ projects = Put(<<>>, 1, ConcurrentProject)
    /\ project_matches = NewMatches(1, TopMatches(DefaultPool, ConcurrentProject), 0)
    /\ payments = <<>>
    /\ consultant_profiles = DefaultPool
    /\ nanoids = [projects |-> 1, project_matches |-> 2, payments |-> 0]
    /\ lastCall = Call("createProject", TRUE, 1, "sme1", <<>>)
    /\ calls = 1
    /\ evaluation = NoEvaluation
    /\ requests \in [1..2 -> ConcurrentRequests]

\* what a statement of request r leaves alone besides the tables it names
Moved(r, pc) == requests' = [requests EXCEPT ![r].pc = pc]

Untouched == UNCHANGED <<payments, consultant_profiles, nanoids, lastCall, calls,
                         evaluation>>

\* updateMatchStatus: SELECT pm.* ... WHERE pm.id = ? AND p.sme_id = ?
SelectExistingMatch(r) ==
    /\ requests[r].op = "updateMatchStatus"
    /\ requests[r].pc = "start"
    /\ requests' =
           IF ExistingMatch(requests[r].id, requests[r].actor)
           THEN [requests EXCEPT ![r].pc = "updateMatch",
                                 ![r].row = Some(project_matches[requests[r].id])]
           ELSE [requests EXCEPT ![r].pc = "thrown"]
    /\ UNCHANGED <<projects, project_matches>>
    /\ Untouched

\* updateMatchStatus: UPDATE project_matches SET status = ? WHERE id = ?
UpdateMatchRow(r) ==
    /\ requests[r].pc = "updateMatch"
    /\ project_matches' =
           [m \in DOMAIN project_matches |->
               IF m = requests[r].id
               THEN [project_matches[m] EXCEPT !.status = requests[r].arg[1]]
               ELSE project_matches[m]]
    /\ Moved(r, IF requests[r].arg[1] = "rejected" THEN "reselect" ELSE "updateProject")
    /\ UNCHANGED projects
    /\ Untouched

\* updateMatchStatus: UPDATE projects SET status = ? WHERE id = ?, with
\* 'in_progress' on accepted and 'completed' on completed
UpdateProjectRow(r) ==
    /\ requests[r].pc = "updateProject"
    /\ projects' =
           [p \in DOMAIN projects |->
               IF p = requests[r].row[1].project_id
               THEN [projects[p] EXCEPT !.status =
                        IF requests[r].arg[1] = "accepted" THEN "in_progress"
                        ELSE "completed"]
               ELSE projects[p]]
    /\ Moved(r, IF requests[r].arg[1] = "accepted" THEN "rejectOthers" ELSE "reselect")
    /\ UNCHANGED project_matches
    /\ Untouched

\* updateMatchStatus: UPDATE project_matches SET status = 'rejected' WHERE
\* project_id = ? AND id != ? AND status = 'pending'
RejectOtherPending(r) ==
    /\ requests[r].pc = "rejectOthers"
    /\ project_matches' =
           [m \in DOMAIN project_matches |->
               IF /\ project_matches[m].project_id = requests[r].row[1].project_id
                  /\ m # requests[r].id
                  /\ project_matches[m].status = "pending"
               THEN [project_matches[m] EXCEPT !.status = "rejected"]
               ELSE project_matches[m]]
    /\ Moved(r, "reselect")
    /\ UNCHANGED projects
    /\ Untouched

\* submitProposal: SELECT * FROM project_matches WHERE id = ? AND
\* consultant_id = ?, then the test of the row's status
SelectOwnMatch(r) ==
    /\ requests[r].op = "submitProposal"
    /\ requests[r].pc = "start"
    /\ requests' =
           IF /\ requests[r].id \in DOMAIN project_matches
              /\ project_matches[requests[r].id].consultant_id = requests[r].actor
              /\ project_matches[requests[r].id].status = "pending"
           THEN [requests EXCEPT ![r].pc = "updateProposal",
                                 ![r].row = Some(project_matches[requests[r].id])]
           ELSE [requests EXCEPT ![r].pc = "thrown"]
    /\ UNCHANGED <<projects, project_matches>>
    /\ Untouched

\* submitProposal: UPDATE project_matches SET proposal = ?, price = ? WHERE id = ?
UpdateProposalRow(r) ==
    /\ requests[r].pc = "updateProposal"
    /\ project_matches' =
           [m \in DOMAIN project_matches |->
               IF m = requests[r].id
               THEN ProposalUpdate(project_matches[m], requests[r].arg[1],
                                   requests[r].arg[2])
               ELSE project_matches[m]]
    /\ Moved(r, "reselect")
    /\ UNCHANGED projects
    /\ Untouched

\* updateMatchStatus and submitProposal: SELECT * FROM project_matches
\* WHERE id = ?, the row that is returned
SelectUpdatedMatch(r) ==
    /\ requests[r].pc = "reselect"
    /\ requests' =
           IF requests[r].id \in DOMAIN project_matches
           THEN [requests EXCEPT ![r].pc = "returned",
                                 ![r].result = Some(project_matches[requests[r].id])]
           ELSE [requests EXCEPT ![r].pc = "thrown"]
    /\ UNCHANGED <<projects, project_matches>>
    /\ Untouched

\* getProjectMatches: SELECT * FROM projects WHERE id = ? AND sme_id = ?
SelectOwnProject(r) ==
    /\ requests[r].op = "getProjectMatches"
    /\ requests[r].pc = "start"
    /\ requests' =
           IF /\ requests[r].id \in DOMAIN projects
              /\ projects[requests[r].id].sme_id = requests[r].actor
           THEN [requests EXCEPT ![r].pc = "selectMatches",
                                 ![r].row = Some(projects[requests[r].id])]
           ELSE [requests EXCEPT ![r].pc = "thrown"]
    /\ UNCHANGED <<projects, project_matches>>
    /\ Untouched

\* getProjectMatches: SELECT * FROM project_matches WHERE project_id = ?;
\* the rows that are returned, by match id
SelectProjectMatches(r) ==
    /\ requests[r].pc = "selectMatches"
    /\ requests' =
           [requests EXCEPT
               ![r].pc = "returned",
               ![r].result =
                   Some([m \in MatchesOf(project_matches, requests[r].id) |->
                            project_matches[m]])]
    /\ UNCHANGED <<projects, project_matches>>
    /\ Untouched

\* the statement the request runs next throws
StatementThrows(r) ==
    /\ requests[r].pc \notin {"returned", "thrown"}
    /\ Moved(r, "thrown")
    /\ UNCHANGED <<projects, project_matches>>
    /\ Untouched

NextConcurrent ==
    \/ \E r \in DOMAIN requests : SelectExistingMatch(r)
    \/ \E r \in DOMAIN requests : UpdateMatchRow(r)
    \/ \E r \in DOMAIN requests : UpdateProjectRow(r)
    \/ \E r \in DOMAIN requests : RejectOtherPending(r)
    \/ \E r \in DOMAIN requests : SelectOwnMatch(r)
    \/ \E r \in DOMAIN requests : UpdateProposalRow(r)
    \/ \E r \in DOMAIN requests : SelectUpdatedMatch(r)
    \/ \E r \in DOMAIN requests : SelectOwnProject(r)
    \/ \E r \in DOMAIN requests : SelectProjectMatches(r)
    \/ \E r \in DOMAIN requests : StatementThrows(r)

SpecConcurrent == InitConcurrent /\ [][NextConcurrent]_vars

(***************************************************************************)
(* createProject when the store rejects an INSERT of generateProjectMatches.*)
(* The project row is written by its own statement before the matches are  *)
(* computed; the matches are inserted one awaited statement at a time, with *)
(* no transaction and no try/catch, so the k-th rejection propagates out of *)
(* createProject and what was written before it stays.                     *)
(***************************************************************************)
\* the variant that undoes what was written before the rejection
CreateProjectInsertFailsRollingBack(smeId, projectData, k) ==
    LET projectId == nanoids.projects + 1
        project == [sme_id |-> smeId,
                    title |-> projectData.title,
                    description |-> projectData.description,
                    requirements |-> projectData.requirements,
                    budget |-> projectData.budget,
                    deadline |-> projectData.deadline,
                    status |-> "open"]
    IN \E top \in {TopMatches(consultant_profiles, project)} :
           /\ k \in 1..Len(top)
           /\ nanoids' = [nanoids EXCEPT !.projects = projectId,
                                         !.project_matches = @ + k]
           /\ lastCall' = Call("createProject", FALSE, projectId, smeId, <<k>>)
           /\ UNCHANGED <<projects, project_matches, payments, consultant_profiles>>

\* createProject whose k-th INSERT INTO project_matches rejects
CreateProjectInsertFails(smeId, projectData, k) ==
    LET projectId == nanoids.projects + 1
        project == [sme_id |-> smeId,
                    title |-> projectData.title,
                    description |-> projectData.description,
                    requirements |-> projectData.requirements,
                    budget |-> projectData.budget,
                    deadline |-> projectData.deadline,
                    status |-> "open"]
    IN \E top \in {TopMatches(consultant_profiles, project)} :
        /\ k \in 1..Len(top)
        /\ LET new == NewMatches(projectId, SubSeq(top, 1, k - 1),
                                 nanoids.project_matches)
           IN /\ projects' = Put(projects, projectId, project)
              /\ project_matches' = [m \in DOMAIN project_matches \cup DOMAIN new |->
                                        IF m \in DOMAIN new THEN new[m]
                                        ELSE project_matches[m]]
              /\ nanoids' = [nanoids EXCEPT !.projects = projectId,
                                            !.project_matches = @ + k]
              /\ lastCall' = Call("createProject", FALSE, projectId, smeId, <<k>>)
              /\ UNCHANGED <<payments, consultant_profiles>>

\* the default pool, and a pool that gives a project four matches
FaultPools == {DefaultPool, SubSeq(StrongConsultants, 1, 4)}

InitFaults ==
    /\ projects = <<>>
    /\ project_matches = <<>>
    /\ payments = <<>>
    /\ consultant_profiles \in FaultPools
    /\ nanoids = [projects |-> 0, project_matches |-> 0, payments |-> 0]
    /\ lastCall = Call("none", TRUE, 0, "", <<>>)
    /\ calls = 0
    /\ evaluation = NoEvaluation
    /\ requests = <<>>

\* the number of createProject requests served in a behaviour with faults
MaxFaultCalls == 3

FaultTick ==
    /\ calls < MaxFaultCalls
    /\ calls' = calls + 1
    /\ UNCHANGED <<evaluation, requests>>

DoFaultCreateProject ==
    \E input \in ProjectInputs :
        FaultTick /\ CreateProject(input[1], input[2])

DoCreateProjectInsertFails ==
    \E input \in ProjectInputs, k \in 1..TopN :
        FaultTick /\ CreateProjectInsertFails(input[1], input[2], k)

NextFaults ==
    \/ DoFaultCreateProject
    \/ DoCreateProjectInsertFails

SpecFaults == InitFaults /\ [][NextFaults]_vars



(***************************************************************************)
(* Properties.  An action property reads the call just made from           *)
(* lastCall' and compares the tables before (unprimed) and after (primed). *)
(***************************************************************************)
\* the call c is a call of op with arguments arg that returned
Returned(c, op, arg) == c.op = op /\ c.ok /\ c.arg = arg

\* the accepted matches of project p in a project_matches table
AcceptedOf(table, p) == {m \in MatchesOf(table, p) : table[m].status = "accepted"}

\* smeId owns the parent project of match matchId
OwnsMatch(smeId, matchId) ==
    /\ matchId \in DOMAIN project_matches
    /\ project_matches[matchId].project_id \in DOMAIN projects
    /\ projects[project_matches[matchId].project_id].sme_id = smeId

\* every match but matchId is the same row before and after the step
OthersUnchanged(matchId) ==
    /\ DOMAIN project_matches' = DOMAIN project_matches
    /\ \A m \in DOMAIN project_matches \ {matchId} :
           project_matches'[m] = project_matches[m]

\* C1: in every reachable state each project has at most one match whose
\* status is 'accepted'.
AtMostOneAccepted ==
    \A p \in DOMAIN projects : Cardinality(AcceptedOf(project_matches, p)) <= 1

\* C2: after updateMatchStatus(match, owner, 'accepted') returns, the target
\* is the one accepted match of its project, every sibling that was pending
\* before the call is rejected, and the project is in_progress.
AcceptPostcondition ==
    [][Returned(lastCall', "updateMatchStatus", <<"accepted">>) =>
        LET t == lastCall'.id
            p == project_matches[t].project_id
        IN /\ AcceptedOf(project_matches', p) = {t}
           /\ \A m \in MatchesOf(project_matches, p) \ {t} :
                  project_matches[m].status = "pending"
                      => project_matches'[m].status = "rejected"
           /\ projects'[p].status = "in_progress"]_vars

\* C3: updateMatchStatus(.., 'accepted') on a match that is accepted,
\* rejected or completed fails and changes no match and no project.
AcceptOnlyFromPending ==
    [][(/\ lastCall'.op = "updateMatchStatus"
        /\ lastCall'.arg = <<"accepted">>
        /\ lastCall'.id \in DOMAIN project_matches
        /\ project_matches[lastCall'.id].status # "pending")
       => /\ ~lastCall'.ok
          /\ UNCHANGED <<projects, project_matches>>]_vars

\* C4: updateMatchStatus(.., 'completed') on a match that is pending or
\* rejected fails and leaves the match status and the project status as
\* they were.
CompleteOnlyFromAccepted ==
    [][(/\ lastCall'.op = "updateMatchStatus"
        /\ lastCall'.arg = <<"completed">>
        /\ lastCall'.id \in DOMAIN project_matches
        /\ project_matches[lastCall'.id].status \in {"pending", "rejected"})
       => LET t == lastCall'.id
              p == project_matches[t].project_id
          IN /\ ~lastCall'.ok
             /\ project_matches'[t].status = project_matches[t].status
             /\ projects'[p].status = projects[p].status]_vars

\* C5: a match that is rejected or completed keeps its status in every
\* step, and a match changes status only by pending -> accepted,
\* pending -> rejected or accepted -> completed.
TerminalStatuses ==
    [][\A m \in DOMAIN project_matches \cap DOMAIN project_matches' :
          LET old == project_matches[m].status
              new == project_matches'[m].status
          IN /\ old \in {"rejected", "completed"} => new = old
             /\ new # old => <<old, new>> \in {<<"pending", "accepted">>,
                                               <<"pending", "rejected">>,
                                               <<"accepted", "completed">>}]_vars

\* C6: updateMatchStatus(.., 'rejected') on a match that is accepted or
\* completed fails and the match keeps its status.
RejectOnlyFromPending ==
    [][(/\ lastCall'.op = "updateMatchStatus"
        /\ lastCall'.arg = <<"rejected">>
        /\ lastCall'.id \in DOMAIN project_matches
        /\ project_matches[lastCall'.id].status \in {"accepted", "completed"})
       => /\ ~lastCall'.ok
          /\ project_matches'[lastCall'.id].status
                 = project_matches[lastCall'.id].status]_vars

\* C7: updateMatchStatus(match, owner, 'rejected') that returns changes
\* only the status of the target match: the projects table, every other
\* match and every other column of the target are as before.
RejectFrame ==
    [][Returned(lastCall', "updateMatchStatus", <<"rejected">>) =>
        LET t == lastCall'.id
        IN /\ projects' = projects
           /\ OthersUnchanged(t)
           /\ project_matches'[t] = [project_matches[t] EXCEPT !.status = "rejected"]]_vars

\* C7 witness: a match was just rejected while a sibling is pending and the
\* project is open
RejectFrameWitness ==
    /\ Returned(lastCall, "updateMatchStatus", <<"rejected">>)
    /\ project_matches[lastCall.id].status = "rejected"
    /\ LET p == project_matches[lastCall.id].project_id
       IN /\ projects[p].status = "open"
          /\ \E m \in MatchesOf(project_matches, p) :
                 m # lastCall.id /\ project_matches[m].status = "pending"

\* C8: updateMatchStatus(match, owner, 'completed') that returns sets the
\* target match and the parent project to 'completed' and leaves every
\* other match as it was.
CompleteEffects ==
    [][Returned(lastCall', "updateMatchStatus", <<"completed">>) =>
        LET t == lastCall'.id
            p == project_matches[t].project_id
        IN /\ project_matches'[t].status = "completed"
           /\ projects'[p].status = "completed"
           /\ OthersUnchanged(t)]_vars

\* C8 witness: a match was just completed, its project is completed, and a
\* sibling (rejected by the earlier accept) is there
CompleteEffectsWitness ==
    /\ Returned(lastCall, "updateMatchStatus", <<"completed">>)
    /\ project_matches[lastCall.id].status = "completed"
    /\ LET p == project_matches[lastCall.id].project_id
       IN /\ projects[p].status = "completed"
          /\ \E m \in MatchesOf(project_matches, p) :
                 m # lastCall.id /\ project_matches[m].status = "rejected"

\* C9: updateMatchStatus called by an SME that does not own the match's
\* project, or with a match id that does not exist, fails, and no project,
\* match or payment row is modified.
NotOwnerFails ==
    [][(lastCall'.op = "updateMatchStatus"
        /\ ~OwnsMatch(lastCall'.actor, lastCall'.id))
       => /\ ~lastCall'.ok
          /\ UNCHANGED <<projects, project_matches, payments>>]_vars

\* C9 witness: the last call was updateMatchStatus on an existing match by
\* an SME that does not own its project, and it failed
NotOwnerFailsWitness ==
    /\ lastCall.op = "updateMatchStatus"
    /\ ~lastCall.ok
    /\ lastCall.id \in DOMAIN project_matches
    /\ projects[project_matches[lastCall.id].project_id].sme_id # lastCall.actor

\* C10: submitProposal that returns sets the proposal and the price of the
\* target match to its arguments; the match was and stays pending, its
\* other columns are as before, and no other match and no project changes.
ProposalFrame ==
    [][(lastCall'.op = "submitProposal" /\ lastCall'.ok) =>
        LET t == lastCall'.id
        IN /\ project_matches[t].status = "pending"
           /\ project_matches'[t] =
                  [project_matches[t] EXCEPT !.proposal = <<lastCall'.arg[1]>>,
                                             !.price = <<lastCall'.arg[2]>>]
           /\ OthersUnchanged(t)
           /\ projects' = projects]_vars

\* C10 witness: a proposal was just submitted and the match holds it, still
\* pending, while another match of the project has none
ProposalFrameWitness ==
    /\ lastCall.op = "submitProposal"
    /\ lastCall.ok
    /\ project_matches[lastCall.id].status = "pending"
    /\ project_matches[lastCall.id].proposal = <<"plan">>
    /\ project_matches[lastCall.id].price = <<250>>
    /\ \E m \in MatchesOf(project_matches, project_matches[lastCall.id].project_id) :
           m # lastCall.id /\ project_matches[m].proposal = <<>>

\* C11: submitProposal on a match that is not the acting consultant's (or
\* does not exist) or whose status is not 'pending' fails and leaves the
\* match's proposal and price as they were; and in every step a match whose
\* status is accepted, rejected or completed keeps its proposal and price.
ProposalOnlyWhilePending ==
    [][/\ lastCall'.op = "submitProposal" =>
              LET t == lastCall'.id
              IN IF t \notin DOMAIN project_matches
                 THEN ~lastCall'.ok /\ project_matches' = project_matches
                 ELSE (\/ project_matches[t].consultant_id # lastCall'.actor
                       \/ project_matches[t].status # "pending")
                      => /\ ~lastCall'.ok
                         /\ project_matches'[t].proposal = project_matches[t].proposal
                         /\ project_matches'[t].price = project_matches[t].price
       /\ \A m \in DOMAIN project_matches \cap DOMAIN project_matches' :
              project_matches[m].status # "pending"
                  => /\ project_matches'[m].proposal = project_matches[m].proposal
                     /\ project_matches'[m].price = project_matches[m].price]_vars

\* C11 witness: the matched consultant, whose proposal at price 100 is on an
\* accepted match, called submitProposal with price 250 and it failed
ProposalOnlyWhilePendingWitness ==
    /\ lastCall.op = "submitProposal"
    /\ ~lastCall.ok
    /\ lastCall.arg = <<"plan", 250>>
    /\ lastCall.id \in DOMAIN project_matches
    /\ project_matches[lastCall.id].consultant_id = lastCall.actor
    /\ project_matches[lastCall.id].status = "accepted"
    /\ project_matches[lastCall.id].price = <<100>>

\* C12: in every step every match that is there before and after has the
\* same match_score: the score is the one the match was inserted with.
ScoreFixedAtCreation ==
    [][\A m \in DOMAIN project_matches \cap DOMAIN project_matches' :
          project_matches'[m].match_score = project_matches[m].match_score]_vars

\* C12 witness: updateProject just changed the title of a project to 'Waste
\* audit' while consultant c1's match still holds the 66 it was inserted
\* with (the new text scores c1 at 51), with a proposal on it
ScoreFixedAtCreationWitness ==
    /\ Returned(lastCall, "updateProject", <<[title |-> TxtWaste \o Sp \o TxtAudit]>>)
    /\ projects[lastCall.id].title = TxtWaste \o Sp \o TxtAudit
    /\ \E m \in MatchesOf(project_matches, lastCall.id) :
           /\ project_matches[m].consultant_id = "c1"
           /\ project_matches[m].match_score = 66
           /\ project_matches[m].proposal = <<"plan">>

\* C13: the status of an existing project changes only in an
\* updateMatchStatus call, to in_progress on 'accepted' and to completed on
\* 'completed'; no other operation changes it.
StatusOnlyByMatchLifecycle ==
    [][\A p \in DOMAIN projects \cap DOMAIN projects' :
          projects'[p].status # projects[p].status
              => \/ /\ Returned(lastCall', "updateMatchStatus", <<"accepted">>)
                    /\ projects'[p].status = "in_progress"
                 \/ /\ Returned(lastCall', "updateMatchStatus", <<"completed">>)
                    /\ projects'[p].status = "completed"]_vars

\* C14: when createProject returns, the project is new, has status 'open'
\* and its matches are the rows of the ranker's list; and no step adds a
\* match to a project that was there before the step.
RankedOnceAtCreation ==
    [][/\ (lastCall'.op = "createProject" /\ lastCall'.ok) =>
              LET p == lastCall'.id
              IN /\ p \notin DOMAIN projects
                 /\ p \in DOMAIN projects'
                 /\ projects'[p].status = "open"
                 /\ Cardinality(MatchesOf(project_matches', p))
                        = Len(TopMatches(consultant_profiles', projects'[p]))
       /\ \A p \in DOMAIN projects :
              MatchesOf(project_matches', p) \subseteq MatchesOf(project_matches, p)]_vars

\* C14 witness: createProject just returned an open project with two
\* matches, after three calls that left an earlier project with exactly
\* the two matches it was created with
RankedOnceAtCreationWitness ==
    /\ lastCall.op = "createProject"
    /\ lastCall.ok
    /\ calls = 4
    /\ projects[lastCall.id].status = "open"
    /\ Cardinality(MatchesOf(project_matches, lastCall.id)) = 2
    /\ \E p \in DOMAIN projects :
           /\ p # lastCall.id
           /\ projects[p].title = TxtWaste \o Sp \o TxtAudit
           /\ Cardinality(MatchesOf(project_matches, p)) = 2

\* C16: the rows createProject adds to project_matches all reference the
\* new project with status 'pending', proposal null and price null, and
\* there is exactly one of them for each consultant of the retained list.
NewMatchesArePending ==
    [][(lastCall'.op = "createProject" /\ lastCall'.ok) =>
        LET p == lastCall'.id
            new == DOMAIN project_matches' \ DOMAIN project_matches
            top == TopMatches(consultant_profiles', projects'[p])
        IN /\ \A m \in new :
                  /\ project_matches'[m].project_id = p
                  /\ project_matches'[m].status = "pending"
                  /\ project_matches'[m].proposal = Null
                  /\ project_matches'[m].price = Null
           /\ \A i \in DOMAIN top :
                  Cardinality({m \in new : project_matches'[m].consultant_id
                                               = top[i].consultant_id}) = 1
           /\ Cardinality(new) = Len(top)]_vars

\* C16 witness: createProject just inserted the pending matches of c1 and
\* c2, without proposal or price, for the new project
NewMatchesArePendingWitness ==
    /\ lastCall.op = "createProject"
    /\ lastCall.ok
    /\ {project_matches[m].consultant_id : m \in MatchesOf(project_matches, lastCall.id)}
           = {"c1", "c2"}
    /\ \A m \in MatchesOf(project_matches, lastCall.id) :
           /\ project_matches[m].status = "pending"
           /\ project_matches[m].proposal = Null
           /\ project_matches[m].price = Null

\* the keywords generateProjectMatches extracts for project p
ProjectKeywords(p) ==
    extractKeywords(projects[p].title \o <<" ">> \o projects[p].description
                        \o <<" ">> \o projects[p].requirements)

\* 100 * n times the combined score 0.6 * expertiseMatch + 0.4 *
\* experienceScore of the pool's i-th consultant for the keywords kw, where
\* n is the number of keywords (1 when there are none)
CombinedTimes(i, kw) ==
    LET em == calculateExpertiseMatch(consultant_profiles[i].expertise, kw)
    IN 60 * em[1]
       + 4 * calculateExperienceScore(consultant_profiles[i].experience_years) * em[2]

\* the places in the pool of the consultant of match m
PoolPlaces(m) ==
    {i \in DOMAIN consultant_profiles :
        consultant_profiles[i].id = project_matches[m].consultant_id}

\* the pool's consultants that pass the threshold for kw and have no match
\* of project p
CutFrom(p, kw) ==
    {i \in DOMAIN consultant_profiles :
        /\ CombinedTimes(i, kw) >= 30 * (IF Len(kw) > 0 THEN Len(kw) ELSE 1)
        /\ \A m \in MatchesOf(project_matches, p) :
               project_matches[m].consultant_id # consultant_profiles[i].id}

\* C15: every project has at most 10 matches; each has a persisted score
\* from 0.30 to 1.00 and belongs to a consultant whose combined score is at
\* least 0.30; in insertion order the persisted scores never increase.
RankedListBounded ==
    \A p \in DOMAIN projects : \A kw \in {ProjectKeywords(p)} :
        LET ms == MatchesOf(project_matches, p)
        IN /\ Cardinality(ms) <= 10
           /\ \A m \in ms :
                  /\ project_matches[m].match_score \in 30..100
                  /\ \E i \in PoolPlaces(m) :
                         CombinedTimes(i, kw)
                             >= 30 * (IF Len(kw) > 0 THEN Len(kw) ELSE 1)
           /\ \A m1, m2 \in ms :
                  m1 < m2 => project_matches[m1].match_score
                                 >= project_matches[m2].match_score

\* C15 witness: a project of a twelve-consultant pool has ten matches, with
\* scores from 1.00 down to 0.37, a passing consultant was cut and rZ, below
\* the threshold, has no match
RankedListBoundedWitness ==
    /\ Len(consultant_profiles) = 12
    /\ \E p \in DOMAIN projects : \E kw \in {ProjectKeywords(p)} :
           LET ms == MatchesOf(project_matches, p)
           IN /\ Cardinality(ms) = 10
              /\ {project_matches[m].match_score : m \in ms}
                     = {100, 87, 75, 66, 57, 54, 53, 37}
              /\ \E i \in CutFrom(p, kw) : consultant_profiles[i].id \in {"rX", "rY"}
              /\ \A m \in ms : project_matches[m].consultant_id # "rZ"

\* C17: no consultant that passed the threshold and was cut has a strictly
\* higher combined score than a retained one, and of two retained
\* consultants with the same combined score the one earlier in the pool has
\* the earlier match.
RetainedAreBestByCombined ==
    \A p \in DOMAIN projects : \A kw \in {ProjectKeywords(p)} :
        LET ms == MatchesOf(project_matches, p)
        IN /\ \A c \in CutFrom(p, kw) : \A m \in ms : \A r \in PoolPlaces(m) :
                  CombinedTimes(c, kw) <= CombinedTimes(r, kw)
           /\ \A m1, m2 \in ms : \A r1 \in PoolPlaces(m1), r2 \in PoolPlaces(m2) :
                  (CombinedTimes(r1, kw) = CombinedTimes(r2, kw) /\ r1 < r2)
                      => m1 < m2

\* C18: the scoring step includes a consultant exactly when the unrounded
\* 0.6 * expertiseMatch + 0.4 * experienceScore is at least 0.30; a
\* consultant that is not included gets no score to persist.
ThresholdOnUnrounded ==
    (evaluation.fn = "matchScore" /\ evaluation.done) =>
        LET m == evaluation.args[1][1]
            n == evaluation.args[1][2]
            e == calculateExperienceScore(evaluation.args[2])
        IN /\ evaluation.result.included <=> (60 * m + 4 * e * n >= 30 * n)
           /\ ~evaluation.result.included => evaluation.result.match_score = Null
           /\ (m = 0 /\ evaluation.args[2] = 0) => ~evaluation.result.included

\* C18 witness: a consultant without experience who matches 5 of 17
\* keywords (combined 0.2965, which rounds to 0.30) was scored and is not
\* included
ThresholdOnUnroundedWitness ==
    /\ evaluation.fn = "matchScore"
    /\ evaluation.done
    /\ evaluation.args = <<<<5, 17>>, 0>>
    /\ RoundHalfUp(<<5, 17>>, 3) = 30
    /\ ~evaluation.result.included

\* C19: the score persisted for an included consultant is 0.6 *
\* expertiseMatch + 0.4 * experienceScore rounded half-up to hundredths:
\* the r with r - 1/2 <= 100 * combined < r + 1/2.
PersistedIsHalfUp ==
    (evaluation.fn = "matchScore" /\ evaluation.done /\ evaluation.result.included) =>
        LET m == evaluation.args[1][1]
            n == evaluation.args[1][2]
            e == calculateExperienceScore(evaluation.args[2])
            r == evaluation.result.match_score[1]
        IN /\ (2 * r - 1) * n <= 2 * (60 * m + 4 * e * n)
           /\ 2 * (60 * m + 4 * e * n) < (2 * r + 1) * n

\* C20: calculateExpertiseMatch(E, K) is the number of keywords of K that
\* some lower-cased tag of E contains or is contained in, each keyword
\* counted once, over the number of keywords, so it is in [0, 1]; and it is
\* 0 when K is empty.
ExpertiseMatchIsMatchedFraction ==
    (evaluation.fn = "calculateExpertiseMatch" /\ evaluation.done) =>
        LET E == evaluation.args[1]
            K == evaluation.args[2]
            matched == {k \in Range(K) :
                           \E t \in Range(E) :
                               \/ Includes(toLowerCase(t), k)
                               \/ Includes(k, toLowerCase(t))}
            r == evaluation.result
        IN IF K = <<>>
           THEN r[1] = 0 /\ r[2] = 1
           ELSE /\ r = <<Cardinality(matched), Len(K)>>
                /\ 0 <= r[1] /\ r[1] <= r[2]

\* C20 witness: the tags 'Carbon footprint' and 'Car' both match the
\* keyword carbon, which counts once, and audit matches no tag: 1/2
ExpertiseMatchIsMatchedFractionWitness ==
    /\ evaluation.fn = "calculateExpertiseMatch"
    /\ evaluation.done
    /\ evaluation.args = << <<TxtCarbon \o Sp \o TxtFootprint, <<"C","a","r">> >>,
                            <<toLowerCase(TxtCarbon), TxtAudit>> >>
    /\ evaluation.result = <<1, 2>>

\* C21: calculateExperienceScore gives 0.3 for 0 years, 0.5 for 1-2, 0.6
\* for 3-4, 0.7 for 5-6, 0.8 for 7-9, 0.9 for 10-14 and 1.0 from 15 on; it
\* never decreases when the years grow and lies in [0.3, 1.0].
ExperienceScoreIsStepFunction ==
    (evaluation.fn = "calculateExperienceScore" /\ evaluation.done) =>
        LET years == evaluation.args[1]
            more == evaluation.args[2]
            score == evaluation.result[1]
        IN /\ years = 0 => score = 3
           /\ years \in 1..2 => score = 5
           /\ years \in 3..4 => score = 6
           /\ years \in 5..6 => score = 7
           /\ years \in 7..9 => score = 8
           /\ years \in 10..14 => score = 9
           /\ years >= 15 => score = 10
           /\ score \in 3..10
           /\ years <= more => score <= evaluation.result[2]

\* C21 witness: 14 years scored 0.9 and 15 years scored 1.0
ExperienceScoreIsStepFunctionWitness ==
    /\ evaluation.fn = "calculateExperienceScore"
    /\ evaluation.done
    /\ evaluation.args = <<14, 15>>
    /\ evaluation.result = <<9, 10>>

\* C22: extractKeywords returns tokens without repetition, without
\* upper-case letters, of 4 characters or more, each a maximal run between
\* whitespace of the input with its non-word characters removed; an input
\* of whitespace only, or the empty input, gives no token.
KeywordsAreLongDistinctWords ==
    (evaluation.fn = "extractKeywords" /\ evaluation.done) =>
        LET text == evaluation.args[1]
            tokens == evaluation.result
            kept == SelectSeq(text, LAMBDA c : c \in WordChars \/ c \in SpaceChars)
            clean == [i \in DOMAIN kept |->
                         IF kept[i] \in DOMAIN LowerOf THEN LowerOf[kept[i]] ELSE kept[i]]
        IN /\ \A i, j \in DOMAIN tokens : tokens[i] = tokens[j] => i = j
           /\ \A i \in DOMAIN tokens :
                  /\ Len(tokens[i]) >= 4
                  /\ Range(tokens[i]) \cap (Range(UpperChars) \cup SpaceChars) = {}
                  /\ \E a, b \in DOMAIN clean :
                         /\ SubSeq(clean, a, b) = tokens[i]
                         /\ a = 1 \/ clean[a - 1] \in SpaceChars
                         /\ b = Len(clean) \/ clean[b + 1] \in SpaceChars
           /\ Range(text) \subseteq SpaceChars => tokens = <<>>

\* C22 witness: 'Carb carb-' gave the one token carb
KeywordsAreLongDistinctWordsWitness ==
    /\ evaluation.fn = "extractKeywords"
    /\ evaluation.done
    /\ evaluation.args = << <<"C","a","r","b"," ","c","a","r","b","-">> >>
    /\ evaluation.result = << <<"c","a","r","b">> >>

Ended(r) == requests[r].pc \in {"returned", "thrown"}

\* C24: when two requests updateMatchStatus(.., 'accepted') for two
\* different pending matches of one project have run interleaved and both
\* have ended, at most one of the two matches is accepted.
ConcurrentAcceptsLeaveOneAccepted ==
    (/\ DOMAIN requests = {1, 2}
     /\ \A r \in {1, 2} : /\ requests[r].op = "updateMatchStatus"
                          /\ requests[r].arg = <<"accepted">>
                          /\ Ended(r)
     /\ requests[1].id # requests[2].id)
    => Cardinality({r \in {1, 2} :
                       project_matches[requests[r].id].status = "accepted"}) <= 1

\* C25: in no state of the store between the statements of interleaved
\* requests, and in no list getProjectMatches returns, is a match accepted
\* while its project is open or another match of the project is pending.
AcceptIsAtomic ==
    /\ \A m \in DOMAIN project_matches :
           project_matches[m].status = "accepted"
               => /\ projects[project_matches[m].project_id].status # "open"
                  /\ \A o \in MatchesOf(project_matches, project_matches[m].project_id) :
                         project_matches[o].status # "pending"
    /\ \A r \in DOMAIN requests :
           (requests[r].op = "getProjectMatches" /\ requests[r].pc = "returned")
               => LET rows == requests[r].result[1]
                  IN \A m, o \in DOMAIN rows :
                         ~(rows[m].status = "accepted" /\ rows[o].status = "pending")


\* C26: when the INSERT of the k-th match of a new project fails, createProject
\* fails, the project row stays in the store with status 'open', the first
\* k-1 matches of the ranked list stay, the k-th and later ones are not
\* persisted, and no other row changes.
CreationIsBestEffort ==
    [][ (lastCall'.op = "createProject" /\ ~lastCall'.ok) =>
          LET projectId == lastCall'.id
              k == lastCall'.arg[1]
              added == DOMAIN project_matches' \ DOMAIN project_matches
          IN /\ projectId \notin DOMAIN projects
             /\ DOMAIN projects' = DOMAIN projects \cup {projectId}
             /\ projects'[projectId].status = "open"
             /\ projects'[projectId].sme_id = lastCall'.actor
             /\ \A p \in DOMAIN projects : projects'[p] = projects[p]
             /\ DOMAIN project_matches \subseteq DOMAIN project_matches'
             /\ \A m \in DOMAIN project_matches :
                    project_matches'[m] = project_matches[m]
             /\ Cardinality(added) = k - 1
             /\ LET top == TopMatches(consultant_profiles, projects'[projectId])
                IN /\ k \in 1..Len(top)
                   /\ \A j \in 1..Len(top) :
                          (j < k) <=>
                              \E m \in added :
                                  /\ project_matches'[m].project_id = projectId
                                  /\ project_matches'[m].consultant_id
                                         = top[j].consultant_id
                                  /\ project_matches'[m].match_score
                                         = top[j].match_score
                                  /\ project_matches'[m].status = "pending" ]_vars

\* the third of four INSERTs failed: the project and two matches are stored
CreationIsBestEffortWitness ==
    /\ lastCall.op = "createProject"
    /\ ~lastCall.ok
    /\ lastCall.arg = <<3>>
    /\ lastCall.id \in DOMAIN projects
    /\ Cardinality(MatchesOf(project_matches, lastCall.id)) = 2
    /\ Len(TopMatches(consultant_profiles, projects[lastCall.id])) = 4

\* C27: updateProject succeeds only for the owner of a project whose status
\* is 'open'; on any other project or for another SME it fails and changes
\* nothing; the sme_id of a project is the same after the call.
UpdateOnlyWhileOpen ==
    [][ lastCall'.op = "updateProject" =>
          LET projectId == lastCall'.id
              allowed == /\ projectId \in DOMAIN projects
                         /\ projects[projectId].sme_id = lastCall'.actor
                         /\ projects[projectId].status = "open"
          IN /\ lastCall'.ok => allowed
             /\ ~allowed => projects' = projects
             /\ DOMAIN projects' = DOMAIN projects
             /\ \A p \in DOMAIN projects :
                    projects'[p].sme_id = projects[p].sme_id ]_vars

\* C28: a project that is 'in_progress' has an accepted match, and a
\* project that is 'completed' has a completed match.
ProjectStatusHasMatch ==
    \A p \in DOMAIN projects :
        /\ projects[p].status = "in_progress" =>
               \E m \in MatchesOf(project_matches, p) :
                   project_matches[m].status = "accepted"
        /\ projects[p].status = "completed" =>
               \E m \in MatchesOf(project_matches, p) :
                   project_matches[m].status = "completed"

\* C29: a completed project stays completed and an in_progress project
\* never becomes open again.
ProjectStatusMovesForward ==
    [][ \A p \in DOMAIN projects \cap DOMAIN projects' :
            /\ projects[p].status = "completed" =>
                   projects'[p].status \notin {"open", "in_progress"}
            /\ projects[p].status = "in_progress" =>
                   projects'[p].status # "open" ]_vars

\* C30: a consultant who matches none of the keywords is included exactly
\* when the years of experience are at least 7; a project without keywords
\* gives every consultant the expertise match 0; a consultant with 0 years
\* who is included has an expertise match of at least 0.3.
ExperienceAlonePasses ==
    (evaluation.fn = "matchScore" /\ evaluation.done) =>
        LET m == evaluation.args[1][1]
            n == evaluation.args[1][2]
            years == evaluation.args[2]
        IN /\ m = 0 => (evaluation.result.included <=> years >= 7)
           /\ (years = 0 /\ evaluation.result.included) => 10 * m >= 3 * n
           /\ \A c \in Range(DefaultPool) :
                  calculateExpertiseMatch(c.expertise, <<>>)[1] = 0

\* C30 witness: no keyword matched and 7 years: included with 0.32
ExperienceAlonePassesWitness ==
    /\ evaluation.fn = "matchScore"
    /\ evaluation.done
    /\ evaluation.args = <<<<0, 1>>, 7>>
    /\ evaluation.result.included
    /\ evaluation.result.match_score = Some(32)

=========================================================================
